---- MODULE Spec2Model ----
(***************************************************************************)
(* Fixed-width unsigned integers of crypto-bigint: bitwise AND             *)
(* (src/uint/bit_and.rs) and left shifts (src/uint/shl.rs).                *)
(*                                                                         *)
(* A UInt<LIMBS> is a function 0..LIMBS-1 -> Word, least significant limb  *)
(* first, as the array `limbs` of the source.  Word arithmetic is done     *)
(* modulo 2^BIT_SIZE.  Every operation also yields the sequence of events  *)
(* it executes (branch outcomes, loop tests, limb indices read and         *)
(* written, word shift amounts, usize subtractions), so that the index     *)
(* and timing properties can be stated over it.                            *)
(***************************************************************************)
EXTENDS Integers, Sequences, FiniteSets

VARIABLES pc, a, b, n, m, res

vars == <<pc, a, b, n, m, res>>

(* Width of a Word in bits (Limb::BIT_SIZE, 32 or 64 in the source), scaled *)
(* down so that every value can be enumerated.                             *)
BIT_SIZE == 2

(* Number of limbs of the integer (the const generic parameter LIMBS).     *)
LIMBS == 2

(* ------------------------------ words --------------------------------- *)

WordModulus == 2 ^ BIT_SIZE

WordMAX == WordModulus - 1

Words == 0 .. WordMAX

HI_BIT == BIT_SIZE - 1

RECURSIVE AndBits(_, _, _)
AndBits(x, y, k) ==
    IF k = 0 THEN 0
    ELSE (x % 2) * (y % 2) + 2 * AndBits(x \div 2, y \div 2, k - 1)

RECURSIVE OrBits(_, _, _)
OrBits(x, y, k) ==
    IF k = 0 THEN 0
    ELSE (IF x % 2 = 1 \/ y % 2 = 1 THEN 1 ELSE 0)
         + 2 * OrBits(x \div 2, y \div 2, k - 1)

(* Word & Word *)
WordAnd(x, y) == AndBits(x, y, BIT_SIZE)

(* Word | Word *)
WordOr(x, y) == OrBits(x, y, BIT_SIZE)

(* Word << s: the bits shifted past the top are dropped.  A shift amount   *)
(* of BIT_SIZE or more overflows (a panic in a checked build); the         *)
(* unchecked build masks the amount, which is the value given here.        *)
WordShl(x, s) == (x * 2 ^ (s % BIT_SIZE)) % WordModulus

(* Word >> s, with the same treatment of an overflowing shift amount.      *)
WordShr(x, s) == x \div 2 ^ (s % BIT_SIZE)

(* Word::wrapping_mul *)
WrappingMul(x, y) == (x * y) % WordModulus

(* Limb::is_nonzero: the all-ones word iff the limb is not zero.           *)
IsNonzero(x) == IF x # 0 THEN WordMAX ELSE 0

(* Limb::ct_select(a, b, c): b if the choice c is set, else a.             *)
CtSelect(x, y, c) == IF c # 0 THEN y ELSE x

(* Limb::bitand *)
LimbBitand(x, y) == WordAnd(x, y)

(* ------------------------------ UInt ---------------------------------- *)

LimbIdx == 0 .. (LIMBS - 1)

UInts == [LimbIdx -> Words]

(* [Limb::ZERO; LIMBS] *)
ZeroLimbs == [i \in LimbIdx |-> 0]

MaxLimbs == [i \in LimbIdx |-> WordMAX]

OneLimbs == [i \in LimbIdx |-> IF i = 0 THEN 1 ELSE 0]

(* arr[i]; an index outside the array is a panic in the source, recorded   *)
(* as an event by the caller, and reads as zero here.                      *)
Read(arr, i) == IF i \in DOMAIN arr THEN arr[i] ELSE 0

(* arr[i] = v *)
Write(arr, i, v) == IF i \in DOMAIN arr THEN [arr EXCEPT ![i] = v] ELSE arr

(* ----------------------------- shl_1 ---------------------------------- *)

RECURSIVE Shl1ShiftedBits(_, _, _)
Shl1ShiftedBits(self, st, i) ==
    IF i < LIMBS
    THEN Shl1ShiftedBits(self,
            [arr |-> Write(st.arr, i, WordShl(Read(self, i), 1)),
             trace |-> st.trace \o << <<"loop", 1>>, <<"read", i>>,
                                      <<"shl", 1>>, <<"write", i>> >>],
            i + 1)
    ELSE [st EXCEPT !.trace = @ \o << <<"loop", 0>> >>]

RECURSIVE Shl1CarryBits(_, _, _)
Shl1CarryBits(self, st, i) ==
    IF i < LIMBS
    THEN Shl1CarryBits(self,
            [arr |-> Write(st.arr, i, WordShr(Read(self, i), HI_BIT)),
             trace |-> st.trace \o << <<"loop", 1>>, <<"read", i>>,
                                      <<"shr", HI_BIT>>, <<"write", i>> >>],
            i + 1)
    ELSE [st EXCEPT !.trace = @ \o << <<"loop", 0>> >>]

(* Shl1Limbs taking the carry of the limb itself, not of the limb below.  *)
RECURSIVE Shl1LimbsOwnCarry(_, _, _, _)
Shl1LimbsOwnCarry(shifted_bits, carry_bits, st, i) ==
    IF i < LIMBS
    THEN Shl1LimbsOwnCarry(shifted_bits, carry_bits,
            [arr |-> Write(st.arr, i,
                        WordOr(Read(shifted_bits, i), Read(carry_bits, i))),
             trace |-> st.trace \o << <<"loop", 1>>, <<"read", i>>,
                                      <<"read", i>>, <<"write", i>> >>],
            i + 1)
    ELSE [st EXCEPT !.trace = @ \o << <<"loop", 0>> >>]

RECURSIVE Shl1Limbs(_, _, _, _)
Shl1Limbs(shifted_bits, carry_bits, st, i) ==
    IF i < LIMBS
    THEN Shl1Limbs(shifted_bits, carry_bits,
            [arr |-> Write(st.arr, i,
                        WordOr(Read(shifted_bits, i), Read(carry_bits, i - 1))),
             trace |-> st.trace \o << <<"loop", 1>>, <<"read", i>>,
                                      <<"read", i - 1>>, <<"write", i>> >>],
            i + 1)
    ELSE [st EXCEPT !.trace = @ \o << <<"loop", 0>> >>]

(* Shl1CarryWord returning the carry bit itself, not broadcast.           *)
Shl1CarryWordBit(carry_bits) == Read(carry_bits, LIMBS - 1)

Shl1CarryWord(carry_bits) == WrappingMul(Read(carry_bits, LIMBS - 1), WordMAX)

Shl1(self) ==
    LET sb == Shl1ShiftedBits(self, [arr |-> ZeroLimbs, trace |-> <<>>], 0)
        cb == Shl1CarryBits(self, [arr |-> ZeroLimbs, trace |-> sb.trace], 0)
        l0 == [arr |-> Write(ZeroLimbs, 0, Read(sb.arr, 0)),
               trace |-> cb.trace \o << <<"read", 0>>, <<"write", 0>> >>]
        ls == Shl1Limbs(sb.arr, cb.arr, l0, 1)
    IN  [limbs |-> ls.arr,
         carry |-> Shl1CarryWord(cb.arr),
         trace |-> ls.trace \o << <<"read", LIMBS - 1>> >>]

(* --------------------------- shl_vartime ------------------------------ *)

(* ShlVartimeLoop without the bits of the limb below (limb |= hi & nz).   *)
RECURSIVE ShlVartimeLoopNoCarry(_, _, _, _, _, _, _)
ShlVartimeLoopNoCarry(self, st, i, shift_num, lshift_rem, rshift_rem, nz) ==
    IF i > shift_num
    THEN LET limb == WordShl(Read(self, i - shift_num), lshift_rem)
         IN  ShlVartimeLoopNoCarry(self,
                [arr |-> Write(st.arr, i, limb),
                 trace |-> st.trace \o
                     << <<"loop", 1>>,
                        <<"read", i - shift_num>>, <<"shl", lshift_rem>>,
                        <<"read", i - shift_num - 1>>, <<"shr", rshift_rem>>,
                        <<"write", i>> >>],
                i - 1, shift_num, lshift_rem, rshift_rem, nz)
    ELSE [st EXCEPT !.trace = @ \o << <<"loop", 0>> >>]

(* ShlVartimeLoop that skips the shift of the limb below when that limb   *)
(* is zero: the same value, by a branch on the limb.                      *)
RECURSIVE ShlVartimeLoopSkipZero(_, _, _, _, _, _, _)
ShlVartimeLoopSkipZero(self, st, i, shift_num, lshift_rem, rshift_rem, nz) ==
    IF i > shift_num
    THEN LET limb0 == WordShl(Read(self, i - shift_num), lshift_rem)
             below == Read(self, i - shift_num - 1)
             hi    == WordShr(below, rshift_rem)
             limb  == IF below = 0 THEN limb0
                      ELSE WordOr(limb0, WordAnd(hi, nz))
         IN  ShlVartimeLoopSkipZero(self,
                [arr |-> Write(st.arr, i, limb),
                 trace |-> st.trace \o
                     << <<"loop", 1>>,
                        <<"read", i - shift_num>>, <<"shl", lshift_rem>>,
                        <<"read", i - shift_num - 1>> >>
                     \o (IF below = 0 THEN << <<"branch", 1>> >>
                         ELSE << <<"branch", 0>>, <<"shr", rshift_rem>> >>)
                     \o << <<"write", i>> >>],
                i - 1, shift_num, lshift_rem, rshift_rem, nz)
    ELSE [st EXCEPT !.trace = @ \o << <<"loop", 0>> >>]

RECURSIVE ShlVartimeLoop(_, _, _, _, _, _, _)
ShlVartimeLoop(self, st, i, shift_num, lshift_rem, rshift_rem, nz) ==
    IF i > shift_num
    THEN LET limb0 == WordShl(Read(self, i - shift_num), lshift_rem)
             hi    == WordShr(Read(self, i - shift_num - 1), rshift_rem)
             limb  == WordOr(limb0, WordAnd(hi, nz))
         IN  ShlVartimeLoop(self,
                [arr |-> Write(st.arr, i, limb),
                 trace |-> st.trace \o
                     << <<"loop", 1>>,
                        <<"read", i - shift_num>>, <<"shl", lshift_rem>>,
                        <<"read", i - shift_num - 1>>, <<"shr", rshift_rem>>,
                        <<"write", i>> >>],
                i - 1, shift_num, lshift_rem, rshift_rem, nz)
    ELSE [st EXCEPT !.trace = @ \o << <<"loop", 0>> >>]

(* The end of shl_vartime without the store of limbs[shift_num].          *)
ShlVartimeLastOmitted(self, lp, shift_num, lshift_rem) ==
    [limbs |-> lp.arr, trace |-> lp.trace]

(* limbs[shift_num] = Limb(self.limbs[0].0 << lshift_rem); Self { limbs } *)
ShlVartimeLast(self, lp, shift_num, lshift_rem) ==
    [limbs |-> Write(lp.arr, shift_num, WordShl(Read(self, 0), lshift_rem)),
     trace |-> lp.trace \o << <<"read", 0>>, <<"shl", lshift_rem>>,
                              <<"write", shift_num>> >>]

(* ShlVartime leaving early only for shift > BIT_SIZE * LIMBS.            *)
ShlVartimeLateExit(self, shift) ==
    IF shift > BIT_SIZE * LIMBS
    THEN [limbs |-> ZeroLimbs, trace |-> << <<"branch", 1>> >>]
    ELSE LET shift_num  == shift \div BIT_SIZE
             rem        == shift % BIT_SIZE
             nz         == IsNonzero(rem)
             lshift_rem == rem
             rshift_rem == CtSelect(0, BIT_SIZE - rem, nz)
         IN  ShlVartimeLast(self,
                ShlVartimeLoop(self,
                    [arr |-> ZeroLimbs, trace |-> << <<"branch", 0>> >>],
                    LIMBS - 1, shift_num, lshift_rem, rshift_rem, nz),
                shift_num, lshift_rem)

(* ShlVartime shifting right by BIT_SIZE - rem without the select on nz.  *)
ShlVartimeUnmaskedShift(self, shift) ==
    IF shift >= BIT_SIZE * LIMBS
    THEN [limbs |-> ZeroLimbs, trace |-> << <<"branch", 1>> >>]
    ELSE LET shift_num  == shift \div BIT_SIZE
             rem        == shift % BIT_SIZE
             nz         == IsNonzero(rem)
             lshift_rem == rem
             rshift_rem == BIT_SIZE - rem
         IN  ShlVartimeLast(self,
                ShlVartimeLoop(self,
                    [arr |-> ZeroLimbs, trace |-> << <<"branch", 0>> >>],
                    LIMBS - 1, shift_num, lshift_rem, rshift_rem, nz),
                shift_num, lshift_rem)

ShlVartime(self, shift) ==
    IF shift >= BIT_SIZE * LIMBS
    THEN [limbs |-> ZeroLimbs, trace |-> << <<"branch", 1>> >>]
    ELSE LET shift_num  == shift \div BIT_SIZE
             rem        == shift % BIT_SIZE
             nz         == IsNonzero(rem)
             lshift_rem == rem
             rshift_rem == CtSelect(0, BIT_SIZE - rem, nz)
         IN  ShlVartimeLast(self,
                ShlVartimeLoop(self,
                    [arr |-> ZeroLimbs, trace |-> << <<"branch", 0>> >>],
                    LIMBS - 1, shift_num, lshift_rem, rshift_rem, nz),
                shift_num, lshift_rem)

(* ------------------------ bitor, shr_vartime -------------------------- *)

(* UInt::bitor: limb by limb OR.                                           *)
Bitor(self, rhs) == [i \in LimbIdx |-> WordOr(self[i], rhs[i])]

(* The integer a limb array stands for: sum of limbs[i] * 2^(i*BIT_SIZE).  *)
RECURSIVE ToIntFrom(_, _)
ToIntFrom(limbs, i) ==
    IF i >= LIMBS THEN 0 ELSE limbs[i] + WordModulus * ToIntFrom(limbs, i + 1)

ToInt(limbs) == ToIntFrom(limbs, 0)

FromInt(v) == [i \in LimbIdx |-> (v \div 2 ^ (i * BIT_SIZE)) % WordModulus]

(* UInt::shr_vartime: the logical right shift, zero once every bit has     *)
(* been shifted out.                                                       *)
ShrVartime(self, shift) ==
    IF shift < 0 \/ shift >= BIT_SIZE * LIMBS
    THEN ZeroLimbs
    ELSE FromInt(ToInt(self) \div 2 ^ shift)

(* ------------------------- shl_vartime_wide --------------------------- *)

(* (new_lower, upper.bitor(&fold)), with the events in program order.     *)
ShlVartimeWideJoin(new_lower, upper1, events, fold) ==
    [lo |-> new_lower.limbs,
     hi |-> Bitor(upper1.limbs, fold.limbs),
     trace |-> new_lower.trace \o upper1.trace \o events \o fold.trace]

(* ShlVartimeWide folding lower in by the right shift whatever the shift.  *)
ShlVartimeWideNoBranch(lower, upper, shift) ==
    ShlVartimeWideJoin(
        ShlVartime(lower, shift),
        ShlVartime(upper, shift),
        << <<"usub", LIMBS * BIT_SIZE - shift>> >>,
        [limbs |-> ShrVartime(lower, LIMBS * BIT_SIZE - shift),
         trace |-> <<>>])

ShlVartimeWide(lower, upper, shift) ==
    IF shift >= LIMBS * BIT_SIZE
    THEN ShlVartimeWideJoin(
            ShlVartime(lower, shift),
            ShlVartime(upper, shift),
            << <<"branch", 1>>, <<"usub", shift - LIMBS * BIT_SIZE>> >>,
            ShlVartime(lower, shift - LIMBS * BIT_SIZE))
    ELSE ShlVartimeWideJoin(
            ShlVartime(lower, shift),
            ShlVartime(upper, shift),
            << <<"branch", 0>>, <<"usub", LIMBS * BIT_SIZE - shift>> >>,
            [limbs |-> ShrVartime(lower, LIMBS * BIT_SIZE - shift),
             trace |-> <<>>])

(* ------------------------------ bitand -------------------------------- *)

(* BitandLoop stopping one limb short.                                    *)
RECURSIVE BitandLoopShort(_, _, _, _)
BitandLoopShort(self, rhs, limbs, i) ==
    IF i < LIMBS - 1
    THEN BitandLoopShort(self, rhs,
                    Write(limbs, i, LimbBitand(Read(self, i), Read(rhs, i))),
                    i + 1)
    ELSE limbs

RECURSIVE BitandLoop(_, _, _, _)
BitandLoop(self, rhs, limbs, i) ==
    IF i < LIMBS
    THEN BitandLoop(self, rhs,
                    Write(limbs, i, LimbBitand(Read(self, i), Read(rhs, i))),
                    i + 1)
    ELSE limbs

Bitand(self, rhs) == BitandLoop(self, rhs, ZeroLimbs, 0)

WrappingAnd(self, rhs) == Bitand(self, rhs)

(* CheckedAnd that is Some only for a nonzero result.                     *)
CheckedAndNonzero(self, rhs) ==
    [value |-> Bitand(self, rhs),
     is_some |-> IF Bitand(self, rhs) = ZeroLimbs THEN 0 ELSE 1]

(* CtOption::new(result, Choice::from(1)) *)
CheckedAnd(self, rhs) == [value |-> Bitand(self, rhs), is_some |-> 1]

(* ------------------------------ state --------------------------------- *)

(* pc: the operation applied last ("start" before any); a, b: the operands *)
(* (self and rhs, or lower and upper); n, m: shift amounts; res: what the  *)
(* operation returned.                                                     *)
NoResult ==
    [value |-> ZeroLimbs, hi |-> ZeroLimbs, carry |-> 0, is_some |-> 0,
     trace |-> <<>>]

MaxShift == 2 * LIMBS * BIT_SIZE + 1

Shifts == 0 .. MaxShift

(* What is kept of the value an operation returned.                        *)
Shl1Result(r) ==
    [NoResult EXCEPT !.value = r.limbs, !.carry = r.carry, !.trace = r.trace]

ShlResult(r) == [NoResult EXCEPT !.value = r.limbs, !.trace = r.trace]

WideResult(r) ==
    [NoResult EXCEPT !.value = r.lo, !.hi = r.hi, !.trace = r.trace]

CheckedResult(r) ==
    [NoResult EXCEPT !.value = r.value, !.is_some = r.is_some]

(* ---- the shifts of one operand ---- *)

Init ==
    /\ pc = "start"
    /\ a \in UInts
    /\ b \in {ZeroLimbs, MaxLimbs}
    /\ n \in Shifts
    /\ m = 0
    /\ res = NoResult

shl_1 ==
    /\ pc = "start"
    /\ pc' = "shl_1"
    /\ res' = Shl1Result(Shl1(a))
    /\ UNCHANGED <<a, b, n, m>>

shl_vartime ==
    /\ pc = "start"
    /\ pc' = "shl_vartime"
    /\ res' = ShlResult(ShlVartime(a, n))
    /\ UNCHANGED <<a, b, n, m>>

(* self << rhs, by value or by reference *)
shl ==
    /\ pc = "start"
    /\ pc' = "shl"
    /\ res' = ShlResult(ShlVartime(a, n))
    /\ UNCHANGED <<a, b, n, m>>

(* self <<= rhs *)
shl_assign ==
    /\ pc = "start"
    /\ pc' = "shl_assign"
    /\ a' = ShlVartime(a, n).limbs
    /\ res' = [NoResult EXCEPT !.trace = ShlVartime(a, n).trace]
    /\ UNCHANGED <<b, n, m>>

shl_vartime_wide ==
    /\ pc = "start"
    /\ pc' = "shl_vartime_wide"
    /\ res' = WideResult(ShlVartimeWide(a, b, n))
    /\ UNCHANGED <<a, b, n, m>>

Next == shl_1 \/ shl_vartime \/ shl \/ shl_assign \/ shl_vartime_wide

Spec == Init /\ [][Next]_vars

(* ---- the wide shift: every lower half, the upper halves of WideUppers ---- *)

(* The words the upper half is built from: zero, one, the top bit alone    *)
(* and all ones (every word when BIT_SIZE is 2).                           *)
EdgeWords == {0, 1, 2 ^ HI_BIT, WordMAX}

WideUppers == [LimbIdx -> EdgeWords]

InitWide ==
    /\ pc = "start"
    /\ a \in UInts
    /\ b \in WideUppers
    /\ n \in Shifts
    /\ m = 0
    /\ res = NoResult

NextWide == shl_vartime_wide

SpecWide == InitWide /\ [][NextWide]_vars

(* ---- two shifts in a row: (a << m) << n ---- *)

InitCompose ==
    /\ pc = "start"
    /\ a \in UInts
    /\ b = ZeroLimbs
    /\ n \in Shifts
    /\ m \in Shifts
    /\ res = NoResult

shl_first ==
    /\ pc = "start"
    /\ pc' = "first"
    /\ res' = [NoResult EXCEPT !.value = ShlVartime(a, m).limbs]
    /\ UNCHANGED <<a, b, n, m>>

shl_second ==
    /\ pc = "first"
    /\ pc' = "second"
    /\ res' = [NoResult EXCEPT !.value = ShlVartime(res.value, n).limbs]
    /\ UNCHANGED <<a, b, n, m>>

NextCompose == shl_first \/ shl_second

SpecCompose == InitCompose /\ [][NextCompose]_vars

(* ---- bitwise AND of every pair ---- *)

InitAnd ==
    /\ pc = "start"
    /\ a \in UInts
    /\ b \in UInts
    /\ n = 0
    /\ m = 0
    /\ res = NoResult

bitand ==
    /\ pc = "start"
    /\ pc' = "bitand"
    /\ res' = [NoResult EXCEPT !.value = Bitand(a, b)]
    /\ UNCHANGED <<a, b, n, m>>

wrapping_and ==
    /\ pc = "start"
    /\ pc' = "wrapping_and"
    /\ res' = [NoResult EXCEPT !.value = WrappingAnd(a, b)]
    /\ UNCHANGED <<a, b, n, m>>

checked_and ==
    /\ pc = "start"
    /\ pc' = "checked_and"
    /\ res' = CheckedResult(CheckedAnd(a, b))
    /\ UNCHANGED <<a, b, n, m>>

(* self &= other *)
bitand_assign ==
    /\ pc = "start"
    /\ pc' = "bitand_assign"
    /\ a' = Bitand(a, b)
    /\ res' = NoResult
    /\ UNCHANGED <<b, n, m>>

NextAnd == bitand \/ wrapping_and \/ checked_and \/ bitand_assign

SpecAnd == InitAnd /\ [][NextAnd]_vars

(* ===================== properties of the operations ==================== *)

(* 2^(LIMBS*BIT_SIZE): the number of values of a UInt.                     *)
Modulus == 2 ^ (LIMBS * BIT_SIZE)

(* (v * 2^k) mod M, by k doublings.                                        *)
RECURSIVE MulPow2Mod(_, _, _)
MulPow2Mod(v, k, M) ==
    IF k = 0 THEN v % M ELSE MulPow2Mod((2 * v) % M, k - 1, M)

(* Bit k of the natural number x.                                          *)
Bit(x, k) == (x \div 2 ^ k) % 2

(* The events of a trace.                                                  *)
Events(trace) == {trace[k] : k \in DOMAIN trace}

(* An event that raises no error: a limb index inside the array, a word    *)
(* shift amount below the word width, a usize difference that is not       *)
(* negative.                                                               *)
InRange(ev) ==
    /\ ev[1] \in {"read", "write"} => ev[2] \in LimbIdx
    /\ ev[1] \in {"shl", "shr"} => ev[2] \in 0 .. (BIT_SIZE - 1)
    /\ ev[1] = "usub" => ev[2] >= 0

(* C1: shl_vartime(a, n), a << n and a <<= n give (a * 2^n) mod            *)
(* 2^(LIMBS*BIT_SIZE) for every a and every n >= 0.                        *)
C1_ShlIsMulPow2Mod ==
    [][ /\ pc' \in {"shl_vartime", "shl"}
           => ToInt(res'.value) = MulPow2Mod(ToInt(a), n, Modulus)
        /\ pc' = "shl_assign"
           => ToInt(a') = MulPow2Mod(ToInt(a), n, Modulus) ]_vars

(* A shift across the limb boundary that drops bits off the top.           *)
C1_Witness ==
    /\ pc = "shl_vartime"
    /\ a = MaxLimbs
    /\ n = BIT_SIZE + 1
    /\ res.value[LIMBS - 1] = 2 ^ HI_BIT
    /\ res.value[0] = 0

(* C2: shl_vartime_wide((lower, upper), n) is the double-width value       *)
(* lower + upper * 2^(LIMBS*BIT_SIZE) times 2^n, mod 2^(2*LIMBS*BIT_SIZE), *)
(* split into (low half, high half).                                       *)
C2_WideIsDoubleWidthShift ==
    pc = "shl_vartime_wide"
    => ToInt(res.value) + Modulus * ToInt(res.hi)
       = MulPow2Mod(ToInt(a) + Modulus * ToInt(b), n, Modulus * Modulus)

(* ((ONE, ONE), LIMBS*BIT_SIZE) gives (ZERO, ONE).                         *)
C2_Witness ==
    /\ pc = "shl_vartime_wide"
    /\ a = OneLimbs
    /\ b = OneLimbs
    /\ n = LIMBS * BIT_SIZE
    /\ res.value = ZeroLimbs
    /\ res.hi = OneLimbs

(* C3: for a fixed n the events shl_vartime executes do not depend on a:   *)
(* the run on any a has the events of the run on ZERO (and of the run on   *)
(* MAX), hence any two runs with the same n have the same events.          *)
C3_TraceIndependentOfValue ==
    pc \in {"shl_vartime", "shl"}
    => /\ res.trace = ShlVartime(ZeroLimbs, n).trace
       /\ res.trace = ShlVartime(MaxLimbs, n).trace

(* A run on a value with zero and nonzero limbs that goes round the loop.  *)
C3_Witness ==
    /\ pc = "shl_vartime"
    /\ n = 1
    /\ a[0] = 0
    /\ a[LIMBS - 1] = WordMAX
    /\ <<"loop", 1>> \in Events(res.trace)

(* C4: shl_vartime(a, 0) = a; for n >= LIMBS*BIT_SIZE the result is ZERO,  *)
(* returned by the early exit before any limb is read.                     *)
C4_IdentityAndSaturation ==
    pc \in {"shl_vartime", "shl"}
    => /\ n = 0 => res.value = a
       /\ n >= LIMBS * BIT_SIZE
          => /\ res.value = ZeroLimbs
             /\ res.trace = << <<"branch", 1>> >>

C4_Witness ==
    /\ pc = "shl_vartime"
    /\ a = MaxLimbs
    /\ n = LIMBS * BIT_SIZE
    /\ res.value = ZeroLimbs

(* C5: the value shl_1(a) returns is shl_vartime(a, 1).                    *)
C5_Shl1IsShlVartime1 ==
    pc = "shl_1" => res.value = ShlVartime(a, 1).limbs

(* The top bit of limb 0 is carried into limb 1.                           *)
C5_Witness ==
    /\ pc = "shl_1"
    /\ a[0] = 2 ^ HI_BIT
    /\ a[1] = 0
    /\ res.value[1] = 1

(* C6: the carry word of shl_1(a) is all zeros or all ones, and all ones   *)
(* exactly when the top bit of limbs[LIMBS-1] is set, that is when         *)
(* 2 * a >= 2^(LIMBS*BIT_SIZE).                                            *)
C6_CarryIsMask ==
    pc = "shl_1"
    => /\ res.carry \in {0, WordMAX}
       /\ res.carry = WordMAX <=> Bit(a[LIMBS - 1], HI_BIT) = 1
       /\ res.carry = WordMAX <=> 2 * ToInt(a) >= Modulus

C6_Witness ==
    /\ pc = "shl_1"
    /\ a[LIMBS - 1] = 2 ^ HI_BIT
    /\ res.carry = WordMAX

(* C7: checked_and(a, b) is always Some and holds bitand(a, b);            *)
(* wrapping_and(a, b) is bitand(a, b).                                     *)
C7_CheckedAndAlwaysSome ==
    /\ pc = "checked_and" => res.is_some = 1 /\ res.value = Bitand(a, b)
    /\ pc = "wrapping_and" => res.value = Bitand(a, b)

(* checked_and(ZERO, ONE) is Some(ZERO).                                   *)
C7_Witness ==
    /\ pc = "checked_and"
    /\ a = ZeroLimbs
    /\ b = OneLimbs
    /\ res.is_some = 1
    /\ res.value = ZeroLimbs

(* C8: every limb of bitand(a, b) is the bitwise AND of the limbs of a and *)
(* b at that index; bitand commutes, bitand(a, a) = a, bitand(a, ZERO) =   *)
(* ZERO and bitand(a, MAX) = a.                                            *)
C8_BitandLimbwise ==
    pc = "bitand"
    => /\ \A i \in LimbIdx : \A k \in 0 .. (BIT_SIZE - 1) :
              Bit(res.value[i], k) = 1 <=> Bit(a[i], k) = 1 /\ Bit(b[i], k) = 1
       /\ res.value = Bitand(b, a)
       /\ a = b => res.value = a
       /\ b = ZeroLimbs => res.value = ZeroLimbs
       /\ b = MaxLimbs => res.value = a

C8_Witness ==
    /\ pc = "bitand"
    /\ b = MaxLimbs
    /\ a[0] = 1
    /\ a[LIMBS - 1] = 2 ^ HI_BIT
    /\ res.value = a

(* C9: no step of shl_1, shl_vartime or shl_vartime_wide raises an error:  *)
(* every limb index is in [0, LIMBS), every word shift amount in           *)
(* [0, BIT_SIZE-1], no usize subtraction goes below zero; when             *)
(* n % BIT_SIZE = 0 the right shift is by 0 and the neighbouring limb      *)
(* contributes nothing.                                                    *)
C9_NoErrorRaised ==
    /\ \A ev \in Events(res.trace) : InRange(ev)
    /\ pc \in {"shl_vartime", "shl"} /\ n % BIT_SIZE = 0 /\ n < LIMBS * BIT_SIZE
       => /\ \A ev \in Events(res.trace) : ev[1] = "shr" => ev[2] = 0
          /\ \A i \in LimbIdx :
                res.value[i] = IF i >= n \div BIT_SIZE
                               THEN a[i - n \div BIT_SIZE] ELSE 0

(* A whole-limb shift that goes round the loop: the right shift is by 0.   *)
C9_Witness ==
    /\ pc = "shl_vartime"
    /\ n % BIT_SIZE = 0
    /\ a = MaxLimbs
    /\ <<"shr", 0>> \in Events(res.trace)
    /\ <<"read", 0>> \in Events(res.trace)

(* C10: shl_vartime(shl_vartime(a, m), n) = shl_vartime(a, m + n).         *)
C10_ShiftsCompose ==
    pc = "second" => res.value = ShlVartime(a, m + n).limbs

(* Two shifts whose intra-limb parts add up to a whole limb.               *)
C10_Witness ==
    /\ pc = "second"
    /\ (m % BIT_SIZE) + (n % BIT_SIZE) >= BIT_SIZE
    /\ m + n < LIMBS * BIT_SIZE
    /\ a = OneLimbs
    /\ res.value # ZeroLimbs

====
